---- MODULE Spec2Model ----
(***************************************************************************)
(* Model of smart-learner: the calendar arithmetic of                      *)
(* smart-learner-core/src/date.rs, the session state of                    *)
(* smart-learner-helper/src/app.rs and the page handlers of                *)
(* smart-learner-gui/src/main.rs.                                          *)
(*                                                                         *)
(* Conventions.  Rust positions are 0-based, sequence positions here are   *)
(* 1-based; Option<usize> is a number with None == 0.  A panic (index out  *)
(* of bounds, unwrap of None, arithmetic overflow) is the value Panic for  *)
(* a pure function and the flag panicked for an App operation.             *)
(***************************************************************************)
EXTENDS Integers, Sequences, FiniteSets, TLC

VARIABLES
    date_a, date_b,     \* the two Date values of a difference call
    diff_ab, diff_ba,   \* results of date_a.difference(&date_b) and the reverse
    call,               \* a call of a function of date.rs: arguments and result
    decks,              \* App.decks: sequence of [name, cards]
    current_deck,       \* App.current_deck (1-based)
    current_card,       \* App.current_card (None or a 1-based position)
    card_front,         \* App.card_front
    card_back,          \* App.card_back
    search_text,        \* App.search_text
    back_search,        \* App.back_search
    state,              \* GuiApp.state
    new_deck_name,      \* GuiApp.new_deck_name
    today,              \* the clock read by Date::current(), as a day number
    panicked,           \* the process has panicked
    op,                 \* the last App operation: <<name, argument>>
    ret,                \* what that operation returned
    easy_today,         \* history: <<deck, position>> of the cards graded Easy today
    file_dialog,        \* GuiApp.file_dialog: the dialog and its state
    folder_path,        \* App.config.folder_path
    chosen_for          \* history: the button that opened the dialog

dateVars == <<date_a, date_b, diff_ab, diff_ba, call>>

appCore == <<decks, current_deck, current_card, card_front, card_back>>

callVars == <<panicked, op, ret, easy_today>>

guiVars == <<search_text, back_search, state, new_deck_name, today>>

dialogVars == <<file_dialog, folder_path, chosen_for>>

appVars == <<appCore, callVars, guiVars, dialogVars>>

vars == <<dateVars, appVars>>

----------------------------------------------------------------------------
(* Bounds of the date universe. *)

MinYear == 2023

MaxYear == 2024

(* Result of a call that panicked, and of a call not made yet. *)
Panic == -1

NoResult == -2

(* Largest value of the u8 fields day and month. *)
U8Max == 255

(* Largest value of the u16 field year. *)
U16Max == 65535

----------------------------------------------------------------------------
(* date.rs *)

DAYS_IN_MONTH == <<31, 28, 31, 30, 31, 30, 31, 31, 30, 31, 30, 31>>

(* The rule without its last clause: no year divisible by 100 is leap. *)
is_leap_year_no_400(year) == (year % 4 = 0) /\ (year % 100 # 0)

is_leap_year(year) ==
    ((year % 4 = 0) /\ (year % 100 # 0)) \/ (year % 400 = 0)

(* The table alone, February never lengthened. *)
month_length_no_leap(month, year) ==
    IF month - 1 \in 0..11 THEN DAYS_IN_MONTH[(month - 1) + 1] ELSE Panic

(* DAYS_IN_MONTH[*month as usize - 1]: month 0 underflows the usize, a     *)
(* month above 12 is out of the array's bounds; both panic.                *)
month_length(month, year) ==
    IF is_leap_year(year) /\ month = 2
    THEN 29
    ELSE IF month - 1 \in 0..11 THEN DAYS_IN_MONTH[(month - 1) + 1] ELSE Panic

(* impl PartialEq for Date *)
eq(self, other) ==
    self.day = other.day /\ self.month = other.month /\ self.year = other.year

(* impl PartialOrd for Date: "Less", "Equal" or "Greater" *)
cmp_num(x, y) == IF x < y THEN "Less" ELSE IF x = y THEN "Equal" ELSE "Greater"

(* The comparison with the day taken before the month. *)
partial_cmp_day_first(self, other) ==
    IF cmp_num(self.year, other.year) # "Equal" THEN cmp_num(self.year, other.year)
    ELSE IF cmp_num(self.day, other.day) # "Equal" THEN cmp_num(self.day, other.day)
    ELSE cmp_num(self.month, other.month)

partial_cmp(self, other) ==
    IF cmp_num(self.year, other.year) # "Equal" THEN cmp_num(self.year, other.year)
    ELSE IF cmp_num(self.month, other.month) # "Equal" THEN cmp_num(self.month, other.month)
    ELSE cmp_num(self.day, other.day)

(* for year in from..to { difference += 366 or 365 }; the range is empty   *)
(* when from >= to.                                                        *)
RECURSIVE years_loop(_, _)
years_loop(from, to) ==
    IF from >= to THEN 0
    ELSE (IF is_leap_year(from) THEN 366 ELSE 365) + years_loop(from + 1, to)

(* for month in from..to { difference += month_length(&month, &self.year) } *)
RECURSIVE months_loop(_, _, _)
months_loop(from, to, year) ==
    IF from >= to THEN 0
    ELSE LET len  == month_length(from, year)
             rest == months_loop(from + 1, to, year)
         IN  IF len = Panic \/ rest = Panic THEN Panic ELSE len + rest

(* x - y on u8: the subtraction overflows when y > x. *)
u8_sub(x, y) == IF x >= y THEN x - y ELSE Panic

(* The day delta with the order test dropped: self.day - other.day. *)
days_delta_unguarded(self, other) == u8_sub(self.day, other.day)

(* if self.day > other.day { self.day - other.day } else if other.day >    *)
(* self.day { other.day - self.day }                                       *)
days_delta(self, other) ==
    IF self.day > other.day THEN u8_sub(self.day, other.day)
    ELSE IF other.day > self.day THEN u8_sub(other.day, self.day)
    ELSE 0

difference(self, other) ==
    LET years  == years_loop(self.year, other.year)
        months == months_loop(self.month, other.month, self.year)
        days   == days_delta(self, other)
    IN  IF months = Panic \/ days = Panic THEN Panic ELSE years + months + days

----------------------------------------------------------------------------
(* The Date values the calls are made on: every month a u8 can hold around *)
(* the calendar range, and days inside and outside each month.             *)

Years == MinYear..MaxYear

Months == 0..13

Days == {0, 1, 15, 28, 29, 30, 31, U8Max}

Dates == [day : Days, month : Months, year : Years]

(* A calendar date: month 1..12, day 1..length of the month. *)
ValidDate(d) ==
    /\ d.month \in 1..12
    /\ d.day >= 1
    /\ d.day <= month_length(d.month, d.year)

(* Option::None of GuiApp.file_dialog. *)
NoDialog == [kind |-> "none", st |-> "None"]

(* The folder of the configuration file. *)
ConfigFolder == "decks"

(* App::new() and GuiApp::default(), but for the decks read from the       *)
(* folder.                                                                 *)
AppFields ==
    /\ file_dialog = NoDialog
    /\ folder_path = ConfigFolder
    /\ chosen_for = "none"
    /\ current_deck = 1
    /\ current_card = 0
    /\ card_front = ""
    /\ card_back = ""
    /\ search_text = ""
    /\ back_search = FALSE
    /\ state = "Main"
    /\ new_deck_name = ""
    /\ today = 0
    /\ panicked = FALSE
    /\ op = <<"new", "">>
    /\ ret = <<>>
    /\ easy_today = {}

(* App::new() with no deck file in the folder. *)
AppNew == decks = <<>> /\ AppFields

(* No call of a date function is in progress. *)
NoCall == [fn |-> "none", out |-> <<>>]

NoDifference ==
    /\ date_a = [day |-> 1, month |-> 1, year |-> MinYear]
    /\ date_b = [day |-> 1, month |-> 1, year |-> MinYear]
    /\ diff_ab = NoResult
    /\ diff_ba = NoResult

DateIdle == NoDifference /\ call = NoCall

DateInit ==
    /\ date_a \in Dates
    /\ date_b \in Dates
    /\ diff_ab = NoResult
    /\ diff_ba = NoResult
    /\ call = NoCall
    /\ AppNew

(* date_a.difference(&date_b) *)
DifferenceAB ==
    /\ diff_ab = NoResult
    /\ diff_ab' = difference(date_a, date_b)
    /\ UNCHANGED <<date_a, date_b, diff_ba, call, appVars>>

(* date_b.difference(&date_a) *)
DifferenceBA ==
    /\ diff_ba = NoResult
    /\ diff_ba' = difference(date_b, date_a)
    /\ UNCHANGED <<date_a, date_b, diff_ab, call, appVars>>

DateNext == DifferenceAB \/ DifferenceBA

DateSpec == DateInit /\ [][DateNext]_vars

----------------------------------------------------------------------------
(* Calls of is_leap_year, month_length and Date::partial_cmp / Date::eq on *)
(* the values their argument types hold.                                   *)

(* Every u16 year. *)
LeapYears == 0..U16Max

(* The years around each century, for every month a u8 may name. *)
LengthYears == {y \in 0..U16Max : y % 100 \in 0..4}

(* Dates at the ends and inside the range of each field. *)
CmpDates == [day : {0, 1, U8Max}, month : {0, 1, U8Max}, year : Years]

Calls ==
    [fn : {"is_leap_year"}, year : LeapYears, out : {<<>>}]
      \cup [fn : {"month_length"}, month : Months, year : LengthYears, out : {<<>>}]
      \cup [fn : {"partial_cmp"}, a : CmpDates, b : CmpDates, c : CmpDates, out : {<<>>}]

CalendarInit == NoDifference /\ call \in Calls /\ AppNew

(* is_leap_year(&year) *)
CallIsLeapYear ==
    /\ call.fn = "is_leap_year" /\ call.out = <<>>
    /\ call' = [call EXCEPT !.out = << is_leap_year(call.year) >>]
    /\ UNCHANGED <<date_a, date_b, diff_ab, diff_ba, appVars>>

(* month_length(&month, &year) *)
CallMonthLength ==
    /\ call.fn = "month_length" /\ call.out = <<>>
    /\ call' = [call EXCEPT !.out = << month_length(call.month, call.year) >>]
    /\ UNCHANGED <<date_a, date_b, diff_ab, diff_ba, appVars>>

(* a.partial_cmp(&b) for each pair of three dates, and a == b. *)
CallPartialCmp ==
    /\ call.fn = "partial_cmp" /\ call.out = <<>>
    /\ call' = [call EXCEPT !.out =
                  << [ ab |-> partial_cmp(call.a, call.b),
                       ba |-> partial_cmp(call.b, call.a),
                       bc |-> partial_cmp(call.b, call.c),
                       ac |-> partial_cmp(call.a, call.c),
                       eq_ab |-> eq(call.a, call.b) ] >>]
    /\ UNCHANGED <<date_a, date_b, diff_ab, diff_ba, appVars>>

CalendarNext == CallIsLeapYear \/ CallMonthLength \/ CallPartialCmp

CalendarSpec == CalendarInit /\ [][CalendarNext]_vars

----------------------------------------------------------------------------
(* Calendar reference: the number of days from 1 January of MinYear to d,  *)
(* by the Gregorian table.                                                 *)

GregorianLength(m, y) ==
    IF m = 2 THEN (IF (y % 4 = 0 /\ y % 100 # 0) \/ y % 400 = 0 THEN 29 ELSE 28)
    ELSE IF m \in {4, 6, 9, 11} THEN 30 ELSE 31

RECURSIVE DaysBeforeYear(_)
DaysBeforeYear(y) ==
    IF y <= MinYear THEN 0
    ELSE DaysBeforeYear(y - 1) + 337 + GregorianLength(2, y - 1)

RECURSIVE DaysBeforeMonth(_, _)
DaysBeforeMonth(m, y) ==
    IF m <= 1 THEN 0 ELSE DaysBeforeMonth(m - 1, y) + GregorianLength(m - 1, y)

DayNumber(d) == DaysBeforeYear(d.year) + DaysBeforeMonth(d.month, d.year) + d.day

BothValid == ValidDate(date_a) /\ ValidDate(date_b)

(* C1: for valid calendar dates a and b, a.difference(b) = b.difference(a). *)
C1_DifferenceSymmetric ==
    (BothValid /\ diff_ab # NoResult /\ diff_ba # NoResult) => diff_ab = diff_ba

(* C2: for every year y, the difference between 31 December of y and       *)
(* 1 January of y+1 is 1.                                                  *)
C2_YearBoundaryIsOneDay ==
    ( /\ date_a.day = 31 /\ date_a.month = 12
      /\ date_b.day = 1 /\ date_b.month = 1
      /\ date_b.year = date_a.year + 1
      /\ diff_ab # NoResult ) => diff_ab = 1

(* C3: for valid calendar dates a and b, a.difference(b) = 0 if and only   *)
(* if a == b.                                                              *)
C3_ZeroIffEqual ==
    (BothValid /\ diff_ab # NoResult) => ((diff_ab = 0) <=> eq(date_a, date_b))

(* C4: for valid calendar dates a <= b, a.difference(b) is the number of   *)
(* Gregorian calendar days from a to b.                                    *)
C4_DifferenceIsCalendarDays ==
    ( /\ BothValid
      /\ partial_cmp(date_a, date_b) \in {"Less", "Equal"}
      /\ diff_ab # NoResult ) => diff_ab = DayNumber(date_b) - DayNumber(date_a)

(* Months 1..12, any day a u8 holds. *)
MonthInRange(d) == d.month \in 1..12

(* Upper limit of a result over the year range: far below 2^64. *)
DifferenceLimit == (MaxYear - MinYear) * 366 + 11 * 31 + U8Max

(* C10: for two dates whose months are in 1..12 and whose days are any     *)
(* value, difference returns a value: it does not panic and the sum stays  *)
(* within the u64 range.                                                   *)
C10_DifferenceTotalOnMalformedDays ==
    (MonthInRange(date_a) /\ MonthInRange(date_b) /\ diff_ab # NoResult)
        => (diff_ab # Panic /\ diff_ab >= 0 /\ diff_ab <= DifferenceLimit)

(* A day out of range for its month on both sides, months crossed. *)
C10_Witness ==
    /\ MonthInRange(date_a) /\ MonthInRange(date_b)
    /\ ~ValidDate(date_a) /\ ~ValidDate(date_b)
    /\ date_a.day = 31 /\ date_a.month = 4 /\ date_b.day = U8Max
    /\ date_a.month < date_b.month
    /\ diff_ab # NoResult /\ diff_ab # Panic

----------------------------------------------------------------------------
(* Bounds of the deck universe. *)

MaxDecks == 2

MaxCards == 3

MaxDay == 1

(* Option::None of current_card. *)
None == 0

(* Highest tier and the interval table 0, 1, 3, 7, ... of the review       *)
(* engine.                                                                 *)
MaxTier == 2

interval(tier) == 2 ^ tier - 1

(* The tier steps a Difficult review may take: unchanged or one step.      *)
DifficultSteps == {0, 1}

Grades == {"Wrong", "Difficult", "Easy"}

(* Texts the user types into the Editor, the search field and the deck     *)
(* name field.                                                             *)
TypedFront == {"a"}

TypedBack == {"b"}

SearchTexts == {"", "a"}

DeckNames == {"", "d"}

NoAudio == "None"

(* What the user picks in a file dialog: a file in open_file mode, a       *)
(* folder in select_folder mode.                                           *)
AudioFiles == {"x.mp3"}

FolderPaths == {"other"}

----------------------------------------------------------------------------
(* Card, Field and Deck of smart-learner-core *)

(* A card that starts one tier up, due tomorrow. *)
new_card_not_due(front_text, back_text, now) ==
    [ front |-> [text |-> front_text, audio_path |-> NoAudio],
      back |-> [text |-> back_text, audio_path |-> NoAudio],
      current_repeat_in |-> 1,
      due_date |-> now + 1 ]

(* Card::new(front, back): tier 0, due today. *)
new_card(front_text, back_text, now) ==
    [ front |-> [text |-> front_text, audio_path |-> NoAudio],
      back |-> [text |-> back_text, audio_path |-> NoAudio],
      current_repeat_in |-> 0,
      due_date |-> now ]

Min(x, y) == IF x <= y THEN x ELSE y

(* Card::review(result): the scheduling state after a review. *)
review(card, result, step, now) ==
    LET tier == CASE result = "Wrong" -> 0
                  [] result = "Difficult" -> Min(card.current_repeat_in + step, MaxTier)
                  [] result = "Easy" -> Min(card.current_repeat_in + 1, MaxTier)
    IN  [card EXCEPT !.current_repeat_in = tier, !.due_date = now + interval(tier)]

(* A card is due iff due_date <= today. *)
is_due(card, now) == card.due_date <= now

(* Deck::due_card(): the first position, in sequence order, of a due card. *)
due_card(cards, now) ==
    LET due == {i \in 1..Len(cards) : is_due(cards[i], now)}
    IN  IF due = {} THEN None ELSE CHOOSE i \in due : \A j \in due : i <= j

(* The characters of the texts of the model. *)
Chars(text) ==
    CASE text = "" -> <<>>
      [] text = "a" -> <<"a">>
      [] text = "b" -> <<"b">>
      [] text = "ab" -> <<"a", "b">>
      [] text = "ba" -> <<"b", "a">>
      [] text = "New" -> <<"N", "e", "w">>
      [] text = "New front" -> <<"N", "e", "w", " ", "f", "r", "o", "n", "t">>
      [] text = "New back" -> <<"N", "e", "w", " ", "b", "a", "c", "k">>

(* Substring match; the empty query matches nothing. *)
contains(text, query) ==
    LET t == Chars(text)
        q == Chars(query)
    IN  /\ Len(q) > 0
        /\ \E k \in 0..(Len(t) - Len(q)) : \A i \in 1..Len(q) : t[k + i] = q[i]

field_text(card, back) == IF back THEN card.back.text ELSE card.front.text

(* Deck::search(back_search, search_text): (position, text) of the matches *)
(* in sequence order.                                                      *)
RECURSIVE deck_search(_, _, _, _)
deck_search(cards, back, query, i) ==
    IF i > Len(cards) THEN <<>>
    ELSE (IF contains(field_text(cards[i], back), query)
          THEN << <<i, field_text(cards[i], back)>> >>
          ELSE <<>>) \o deck_search(cards, back, query, i + 1)

(* The number of cards of the decks ds[i..]. *)
RECURSIVE TotalCards(_, _)
TotalCards(ds, i) ==
    IF i > Len(ds) THEN 0 ELSE Len(ds[i].cards) + TotalCards(ds, i + 1)

(* Vec::remove(index): shifts the tail down. *)
vec_remove(cards, index) ==
    [i \in 1..(Len(cards) - 1) |-> IF i < index THEN cards[i] ELSE cards[i + 1]]

(* Vec::swap_remove(index): the last element takes the freed position. *)
swap_remove(cards, index) ==
    [i \in 1..(Len(cards) - 1) |-> IF i = index THEN cards[Len(cards)] ELSE cards[i]]

----------------------------------------------------------------------------
(* app.rs: the operations of App.  Each one is an action on appCore and    *)
(* callVars; the page handlers below add the GUI variables.                *)

(* self.decks[self.current_deck] is in bounds. *)
DeckIndexOk == current_deck \in 1..Len(decks)

(* self.current_card.unwrap() succeeds and                                 *)
(* self.decks[self.current_deck].value.cards[..] is in bounds.             *)
CardIndexOk ==
    /\ DeckIndexOk
    /\ current_card # None
    /\ current_card \in 1..Len(decks[current_deck].cards)

CurrentCards == decks[current_deck].cards

Returns(name, arg, value) ==
    /\ op' = <<name, arg>>
    /\ ret' = value
    /\ panicked' = FALSE
    /\ name \notin {"card_revised", "delete_card"} => UNCHANGED easy_today

Panics(name, arg) ==
    /\ op' = <<name, arg>>
    /\ ret' = <<>>
    /\ panicked' = TRUE
    /\ UNCHANGED <<appCore, easy_today>>

(* pub fn new_deck(&mut self, deck_name: String) *)
new_deck(deck_name) ==
    /\ decks' = Append(decks, [name |-> deck_name, cards |-> <<>>])
    /\ UNCHANGED <<current_deck, current_card, card_front, card_back>>
    /\ Returns("new_deck", deck_name, <<>>)

(* The test of line 54 with the branches exchanged. *)
repeat_now_inverted(card) == card.current_repeat_in # 0

(* The test of line 54 dropped: the current card is never kept. *)
repeat_now_never(card) == FALSE

(* self.decks[..].value.cards[result].current_repeat_in == 0 *)
repeat_now(card) == card.current_repeat_in = 0

(* The result with "got a new card" set whatever was found. *)
revision_result_always_new(found) == <<found # None, TRUE>>

(* if self.current_card.is_some() { .. (true, true) } else { (false, false) } *)
revision_result(found) == IF found # None THEN <<TRUE, TRUE>> ELSE <<FALSE, FALSE>>

(* pub fn get_card_for_revision(&mut self) -> (bool, bool) *)
get_card_for_revision ==
    IF current_card # None /\ ~CardIndexOk
    THEN Panics("get_card_for_revision", "")
    ELSE IF current_card # None /\ repeat_now(CurrentCards[current_card])
    THEN /\ UNCHANGED appCore
         /\ Returns("get_card_for_revision", "", <<TRUE, FALSE>>)
    ELSE IF ~DeckIndexOk
    THEN Panics("get_card_for_revision", "")
    ELSE LET found == due_card(CurrentCards, today)
         IN  IF found # None
             THEN /\ current_card' = found
                  /\ card_front' = CurrentCards[found].front.text
                  /\ card_back' = CurrentCards[found].back.text
                  /\ UNCHANGED <<decks, current_deck>>
                  /\ Returns("get_card_for_revision", "", revision_result(found))
             ELSE /\ current_card' = None
                  /\ UNCHANGED <<decks, current_deck, card_front, card_back>>
                  /\ Returns("get_card_for_revision", "", revision_result(found))

(* pub fn create_card(&mut self) -> bool *)
create_card ==
    IF Len(decks) = 0
    THEN /\ current_card' = None
         /\ UNCHANGED <<decks, current_deck, card_front, card_back>>
         /\ Returns("create_card", "", <<FALSE>>)
    ELSE IF ~DeckIndexOk
    THEN Panics("create_card", "")
    ELSE /\ decks' = [decks EXCEPT ![current_deck].cards =
                        Append(@, new_card("New front", "New back", today))]
         /\ current_card' = Len(CurrentCards) + 1
         /\ card_front' = "New front"
         /\ card_back' = "New back"
         /\ UNCHANGED current_deck
         /\ Returns("create_card", ToString(current_deck), <<TRUE>>)

(* The two assignments of edit_card with the second one lost. *)
edited_front_only(card, front_text, back_text) ==
    [card EXCEPT !.front.text = front_text]

(* card.front.text = self.card_front.clone();                              *)
(* card.back.text = self.card_back.clone();                                *)
edited(card, front_text, back_text) ==
    [card EXCEPT !.front.text = front_text, !.back.text = back_text]

(* pub fn edit_card(&mut self) *)
edit_card ==
    IF ~CardIndexOk
    THEN Panics("edit_card", "")
    ELSE /\ decks' = [decks EXCEPT ![current_deck].cards[current_card] =
                        edited(@, card_front, card_back)]
         /\ UNCHANGED <<current_deck, current_card, card_front, card_back>>
         /\ Returns("edit_card", "", <<>>)

(* App::search panics: there are decks and self.decks[self.current_deck]   *)
(* is out of bounds.                                                       *)
search_panics(cur) == Len(decks) # 0 /\ cur \notin 1..Len(decks)

(* The value App::search returns. *)
search_value(cur, back, query) ==
    IF Len(decks) = 0 THEN <<>> ELSE deck_search(decks[cur].cards, back, query, 1)

(* pub fn search(&mut self) -> Vec<(usize, String)>, called by the page    *)
(* once it has set current_deck, back_search and search_text to cur, back  *)
(* and query.                                                              *)
search(cur, back, query) ==
    /\ UNCHANGED <<decks, current_card, card_front, card_back, easy_today>>
    /\ op' = <<"search", "">>
    /\ IF search_panics(cur)
       THEN ret' = <<>> /\ panicked' = TRUE
       ELSE ret' = search_value(cur, back, query) /\ panicked' = FALSE

(* pub fn change_card(&mut self, card_index: usize) *)
change_card(card_index) ==
    IF ~(DeckIndexOk /\ card_index \in 1..Len(CurrentCards))
    THEN Panics("change_card", "")
    ELSE /\ current_card' = card_index
         /\ card_front' = CurrentCards[card_index].front.text
         /\ card_back' = CurrentCards[card_index].back.text
         /\ UNCHANGED <<decks, current_deck>>
         /\ Returns("change_card", "", <<>>)

(* A review that reaches every card of the deck. *)
revised_all(ds, result, step) ==
    [ds EXCEPT ![current_deck].cards =
        [i \in 1..Len(@) |-> review(@[i], result, step, today)]]

(* self.decks[self.current_deck].value.cards[self.current_card.unwrap()]   *)
(*     .review(result): the decks after it.                                *)
revised(ds, result, step) ==
    [ds EXCEPT ![current_deck].cards[current_card] = review(@, result, step, today)]

(* pub fn card_revised(&mut self, result: Result) *)
card_revised(result) ==
    IF ~CardIndexOk
    THEN Panics("card_revised", result)
    ELSE /\ \E step \in DifficultSteps : decks' = revised(decks, result, step)
         /\ easy_today' = IF result = "Easy"
                          THEN easy_today \cup {<<current_deck, current_card>>}
                          ELSE easy_today \ {<<current_deck, current_card>>}
         /\ UNCHANGED <<current_deck, current_card, card_front, card_back>>
         /\ Returns("card_revised", result, <<>>)

(* The history marks after the card at position index of deck d, which    *)
(* has n cards, is removed and the last card takes its position.           *)
moved_marks(marks, d, index, n) ==
    {m \in marks : m[1] # d \/ (m[2] # index /\ m[2] # n)}
        \cup (IF index # n /\ <<d, n>> \in marks THEN {<<d, index>>} ELSE {})

(* delete_card without its last line: the position is kept. *)
card_after_delete_kept == current_card

(* self.current_card = None; *)
card_after_delete == None

(* pub fn delete_card(&mut self) *)
delete_card ==
    IF ~CardIndexOk
    THEN Panics("delete_card", "")
    ELSE /\ decks' = [decks EXCEPT ![current_deck].cards = swap_remove(@, current_card)]
         /\ current_card' = card_after_delete
         /\ easy_today' = moved_marks(easy_today, current_deck, current_card,
                                      Len(CurrentCards))
         /\ UNCHANGED <<current_deck, card_front, card_back>>
         /\ Returns("delete_card", "", <<>>)

(* get_audio_file(path) panics: fs::copy(path, ..).unwrap() fails when     *)
(* path is not a regular file.  The copy itself writes to the audio folder *)
(* on disk only.                                                           *)
get_audio_file_panics(path) == path \notin AudioFiles

(* pub fn change_front_audio(&mut self, path: String): the decks after it. *)
change_front_audio(ds, path) ==
    [ds EXCEPT ![current_deck].cards[current_card].front.audio_path = path]

(* pub fn change_back_audio(&mut self, path: String): the decks after it. *)
change_back_audio(ds, path) ==
    [ds EXCEPT ![current_deck].cards[current_card].back.audio_path = path]

----------------------------------------------------------------------------
(* egui_file::FileDialog as main.rs uses it.  show() draws an open dialog  *)
(* and takes the user's event; a dialog that is not open is closed by it,  *)
(* so a selection is reported by one show() call only.                     *)

DialogEvents == {"confirm", "cancel"}

show(dialog, event) ==
    IF dialog.st = "Open"
    THEN [dialog EXCEPT !.st = CASE event = "confirm" -> "Selected"
                                 [] event = "cancel" -> "Cancelled"
                                 [] OTHER -> "Open"]
    ELSE [dialog EXCEPT !.st = "Closed"]

selected(dialog) == dialog.st = "Selected"

(* The paths the dialog offers. *)
DialogPaths(dialog) == IF dialog.kind = "open_file" THEN AudioFiles ELSE FolderPaths

----------------------------------------------------------------------------
(* main.rs: GuiApp::update.  One action is one frame with at most one      *)
(* click or edit of a field; the menu at the bottom is part of every       *)
(* frame.                                                                  *)

MenuTargets == {"Main", "Browser", "NewCard", "Settings"}

(* GuiState::Main: typing in the deck name field. *)
MainTypeName(name) ==
    /\ state = "Main" /\ ~panicked
    /\ new_deck_name # name
    /\ new_deck_name' = name
    /\ UNCHANGED <<dateVars, dialogVars, appCore, callVars, search_text, back_search, state, today>>

(* GuiState::Main: "Create deck". *)
MainCreateDeck ==
    /\ state = "Main" /\ ~panicked
    /\ Len(decks) < MaxDecks
    /\ new_deck(new_deck_name)
    /\ new_deck_name' = ""
    /\ UNCHANGED <<dateVars, dialogVars, search_text, back_search, state, today>>

(* GuiState::Main: the link of deck index. *)
MainDeckLink(index) ==
    /\ state = "Main" /\ ~panicked
    /\ index \in 1..Len(decks)
    /\ state' = "RevisingWithoutAnswer"
    /\ current_deck' = index
    /\ UNCHANGED <<dateVars, dialogVars, decks, current_card, card_front, card_back, callVars,
                   search_text, back_search, new_deck_name, today>>

(* GuiState::Editor: typing in the front or the back field. *)
EditorType ==
    /\ state = "Editor" /\ ~panicked
    /\ \/ \E t \in TypedFront : card_front # t /\ card_front' = t /\ UNCHANGED card_back
       \/ \E t \in TypedBack : card_back # t /\ card_back' = t /\ UNCHANGED card_front
    /\ UNCHANGED <<dateVars, dialogVars, decks, current_deck, current_card, callVars, guiVars>>

(* GuiState::Editor: "Save". *)
EditorSave ==
    /\ state = "Editor" /\ ~panicked
    /\ edit_card
    /\ state' = IF panicked' THEN state ELSE "Main"
    /\ UNCHANGED <<dateVars, dialogVars, search_text, back_search, new_deck_name, today>>

(* GuiState::Editor: "Delete". *)
EditorDelete ==
    /\ state = "Editor" /\ ~panicked
    /\ delete_card
    /\ state' = IF panicked' THEN state ELSE "Main"
    /\ UNCHANGED <<dateVars, dialogVars, search_text, back_search, new_deck_name, today>>

(* GuiState::Editor: "Choose audio" of the front or of the back group. *)
EditorChooseAudio(side) ==
    /\ state = "Editor" /\ ~panicked
    /\ file_dialog' = [kind |-> "open_file", st |-> "Open"]
    /\ chosen_for' = side
    /\ UNCHANGED <<dateVars, appCore, callVars, guiVars, folder_path>>

(* GuiState::Editor: a frame in which the user confirms or cancels the     *)
(* open dialog.  The front group shows the dialog first and takes the      *)
(* event; the back group then shows the same dialog.                       *)
EditorDialog(event, path) ==
    /\ state = "Editor" /\ ~panicked
    /\ file_dialog.st = "Open"
    /\ path \in DialogPaths(file_dialog)
    /\ LET front_dialog == show(file_dialog, event)
           back_dialog  == show(front_dialog, "none")
           after_front  == IF selected(front_dialog)
                           THEN change_front_audio(decks, path) ELSE decks
           after_back   == IF selected(back_dialog)
                           THEN change_back_audio(after_front, path) ELSE after_front
       IN  /\ file_dialog' = back_dialog
           /\ IF ~(selected(front_dialog) \/ selected(back_dialog))
              THEN UNCHANGED <<appCore, callVars>>
              ELSE IF get_audio_file_panics(path) \/ ~CardIndexOk
              THEN Panics("change_audio", path)
              ELSE /\ decks' = after_back
                   /\ UNCHANGED <<current_deck, current_card, card_front, card_back>>
                   /\ Returns("change_audio", path, <<>>)
    /\ UNCHANGED <<dateVars, guiVars, folder_path, chosen_for>>

(* GuiState::Browser: a frame in which the deck, the search text or the    *)
(* scope may be changed; search() runs with the new values.                *)
BrowserFrame(cur, back, query) ==
    /\ state = "Browser" /\ ~panicked
    /\ cur = current_deck \/ cur \in 1..Len(decks)
    /\ (IF cur = current_deck THEN 0 ELSE 1) + (IF back = back_search THEN 0 ELSE 1)
         + (IF query = search_text THEN 0 ELSE 1) <= 1
    /\ current_deck' = cur
    /\ back_search' = back
    /\ search_text' = query
    /\ search(cur, back, query)
    /\ UNCHANGED <<dateVars, dialogVars, state, new_deck_name, today>>

(* GuiState::Browser: the link of a search result. *)
BrowserOpen(k) ==
    /\ state = "Browser" /\ ~panicked
    /\ ~search_panics(current_deck)
    /\ k \in 1..Len(search_value(current_deck, back_search, search_text))
    /\ change_card(search_value(current_deck, back_search, search_text)[k][1])
    /\ state' = IF panicked' THEN state ELSE "Editor"
    /\ UNCHANGED <<dateVars, dialogVars, search_text, back_search, new_deck_name, today>>

(* GuiState::RevisingWithoutAnswer: get_card_for_revision, then the click. *)
(* "Show answer" and "Edit" exist only when a card exists.                 *)
RevisingWithoutAnswer(click) ==
    /\ state = "RevisingWithoutAnswer" /\ ~panicked
    /\ get_card_for_revision
    /\ click \in {"show", "edit"} => (~panicked' /\ ret'[1])
    /\ state' = IF panicked' \/ click = "none" THEN state
                ELSE IF click = "show" THEN "RevisingWithAnswer"
                ELSE IF click = "edit" THEN "Editor"
                ELSE click
    /\ UNCHANGED <<dateVars, dialogVars, search_text, back_search, new_deck_name, today>>

(* GuiState::RevisingWithAnswer: "Wrong", "Difficult" or "Easy". *)
RevisingWithAnswer(result) ==
    /\ state = "RevisingWithAnswer" /\ ~panicked
    /\ card_revised(result)
    /\ state' = IF panicked' THEN state ELSE "RevisingWithoutAnswer"
    /\ UNCHANGED <<dateVars, dialogVars, search_text, back_search, new_deck_name, today>>

(* GuiState::NewCard: choosing the deck in the combo box. *)
NewCardSelectDeck(index) ==
    /\ state = "NewCard" /\ ~panicked
    /\ index \in 1..Len(decks)
    /\ index # current_deck
    /\ current_deck' = index
    /\ UNCHANGED <<dateVars, dialogVars, decks, current_card, card_front, card_back, callVars, guiVars>>

(* GuiState::NewCard: "Create". *)
NewCardCreate ==
    /\ state = "NewCard" /\ ~panicked
    /\ TotalCards(decks, 1) < MaxCards
    /\ create_card
    /\ state' = IF ~panicked' /\ ret'[1] THEN "Editor" ELSE state
    /\ UNCHANGED <<dateVars, dialogVars, search_text, back_search, new_deck_name, today>>

(* GuiState::Settings: "Change folder with decks". *)
SettingsChooseFolder ==
    /\ state = "Settings" /\ ~panicked
    /\ file_dialog' = [kind |-> "select_folder", st |-> "Open"]
    /\ chosen_for' = "folder"
    /\ UNCHANGED <<dateVars, appCore, callVars, guiVars, folder_path>>

(* GuiState::Settings: a frame in which the user confirms or cancels the   *)
(* open dialog.                                                            *)
SettingsDialog(event, path) ==
    /\ state = "Settings" /\ ~panicked
    /\ file_dialog.st = "Open"
    /\ path \in DialogPaths(file_dialog)
    /\ file_dialog' = show(file_dialog, event)
    /\ folder_path' = IF selected(file_dialog') THEN path ELSE folder_path
    /\ UNCHANGED <<dateVars, appCore, callVars, guiVars, chosen_for>>

(* The menu, from a page whose frame calls no App operation. *)
Menu(target) ==
    /\ state \notin {"RevisingWithoutAnswer", "Browser"} /\ ~panicked
    /\ state # target
    /\ state' = target
    /\ UNCHANGED <<dateVars, dialogVars, appCore, callVars, search_text, back_search,
                   new_deck_name, today>>

(* The menu, from the Browser: the frame has called search(). *)
BrowserMenu(target) ==
    /\ state = "Browser" /\ ~panicked
    /\ target # "Browser"
    /\ search(current_deck, back_search, search_text)
    /\ state' = IF panicked' THEN state ELSE target
    /\ UNCHANGED <<dateVars, dialogVars, current_deck, search_text, back_search, new_deck_name, today>>

(* Midnight: Date::current() moves to the next day. *)
Tick ==
    /\ ~panicked
    /\ today < MaxDay
    /\ today' = today + 1
    /\ easy_today' = {}
    /\ UNCHANGED <<dateVars, dialogVars, appCore, panicked, op, ret, search_text, back_search, state,
                   new_deck_name>>

----------------------------------------------------------------------------
(* The decks data::fetch_decks finds in the folder: at most MaxDecks       *)
(* decks with at most MaxCards cards in all, each card in a scheduling     *)
(* state the review engine produces.                                       *)

LoadedTexts == <<"a", "b", "ab", "ba">>

LoadedSchedules ==
    { <<0, 0>>, <<1, 0>>, <<1, 1>> }

loaded_card(i, schedule) ==
    [ front |-> [text |-> LoadedTexts[((i - 1) % 4) + 1], audio_path |-> NoAudio],
      back |-> [text |-> "New back", audio_path |-> NoAudio],
      current_repeat_in |-> schedule[1],
      due_date |-> schedule[2] ]

LoadedDeck ==
    UNION { { [name |-> "d", cards |-> [i \in 1..k |-> loaded_card(i, f[i])]] :
                f \in [1..k -> LoadedSchedules] } : k \in 0..MaxCards }

LoadedDecks ==
    UNION { { ds \in [1..n -> LoadedDeck] : TotalCards(ds, 1) <= MaxCards } :
              n \in 0..MaxDecks }

(* App::new() on a folder with deck files. *)
AppLoaded == decks \in LoadedDecks /\ AppFields

StudyInit == DateIdle /\ AppLoaded

(* A study session with the Editor: decks are chosen from Main, cards are  *)
(* revised, and the card on show may be edited or deleted.                 *)
StudyNext ==
    \/ \E index \in 1..MaxDecks : MainDeckLink(index)
    \/ \E click \in {"none", "show", "edit"} \cup MenuTargets : RevisingWithoutAnswer(click)
    \/ \E result \in Grades : RevisingWithAnswer(result)
    \/ EditorDelete
    \/ \E target \in MenuTargets : Menu(target)
    \/ \E target \in MenuTargets : BrowserMenu(target)

StudySpec == StudyInit /\ [][StudyNext]_vars

(* A study session in which the card on show is also edited: its texts     *)
(* are typed over in the Editor and saved, or the Editor is left by the    *)
(* menu.                                                                   *)
EditStudyNext ==
    \/ StudyNext
    \/ EditorType
    \/ EditorSave

EditStudySpec == StudyInit /\ [][EditStudyNext]_vars

(* Browsing and editing the loaded decks. *)
BrowseNext ==
    \/ \E cur \in 1..MaxDecks, back \in BOOLEAN, query \in SearchTexts :
          BrowserFrame(cur, back, query)
    \/ \E k \in 1..MaxCards : BrowserOpen(k)
    \/ EditorType
    \/ EditorSave
    \/ EditorDelete
    \/ \E target \in MenuTargets : Menu(target)
    \/ \E target \in MenuTargets : BrowserMenu(target)

BrowseSpec == StudyInit /\ [][BrowseNext]_vars

(* Building decks from an empty folder and revising them. *)
CreateNext ==
    \/ \E name \in DeckNames : MainTypeName(name)
    \/ MainCreateDeck
    \/ \E index \in 1..MaxDecks : MainDeckLink(index)
    \/ \E index \in 1..MaxDecks : NewCardSelectDeck(index)
    \/ NewCardCreate
    \/ \E cur \in 1..MaxDecks, back \in BOOLEAN, query \in SearchTexts :
          BrowserFrame(cur, back, query)
    \/ \E k \in 1..MaxCards : BrowserOpen(k)
    \/ EditorSave
    \/ EditorDelete
    \/ \E click \in {"none", "show", "edit"} \cup MenuTargets : RevisingWithoutAnswer(click)
    \/ \E result \in Grades : RevisingWithAnswer(result)
    \/ \E target \in MenuTargets : Menu(target)
    \/ \E target \in MenuTargets : BrowserMenu(target)

(* Attaching audio to the card on show: the Editor is opened from the      *)
(* revision page, and the Settings page shares file_dialog with it.        *)
AudioNext ==
    \/ \E index \in 1..MaxDecks : MainDeckLink(index)
    \/ \E click \in {"none", "edit"} \cup MenuTargets : RevisingWithoutAnswer(click)
    \/ \E side \in {"front", "back"} : EditorChooseAudio(side)
    \/ \E event \in DialogEvents : \E path \in AudioFiles \cup FolderPaths :
          EditorDialog(event, path)
    \/ SettingsChooseFolder
    \/ \E event \in DialogEvents : \E path \in AudioFiles \cup FolderPaths :
          SettingsDialog(event, path)
    \/ \E target \in MenuTargets : Menu(target)
    \/ \E target \in MenuTargets : BrowserMenu(target)

AudioSpec == StudyInit /\ [][AudioNext]_vars

Init == DateIdle /\ AppNew

CreateSpec == Init /\ [][CreateNext]_vars

(* Every handler of GuiApp::update and the clock. *)
Next ==
    \/ EditStudyNext
    \/ BrowseNext
    \/ AudioNext
    \/ CreateNext
    \/ Tick
    \/ DateNext
    \/ CalendarNext

Spec == Init /\ [][Next]_vars

(* A revision session: the deck of a folder with one deck is chosen and    *)
(* its cards are revised; the pages are not left, so no other deck would   *)
(* be touched.  eframe calls update for every frame, and the user grades   *)
(* every card shown: the frames, "Show answer" and the grade buttons are   *)
(* weakly fair.  Midnight may pass during the session.                     *)
SessionInit == StudyInit /\ Len(decks) = 1

SessionNext ==
    \/ MainDeckLink(1)
    \/ RevisingWithoutAnswer("none")
    \/ RevisingWithoutAnswer("show")
    \/ \E result \in Grades : RevisingWithAnswer(result)
    \/ Tick

SessionFairness ==
    /\ WF_vars(MainDeckLink(1))
    /\ WF_vars(RevisingWithoutAnswer("none"))
    /\ WF_vars(RevisingWithoutAnswer("show"))
    /\ WF_vars(\E result \in Grades : RevisingWithAnswer(result))

SessionSpec == SessionInit /\ [][SessionNext]_vars /\ SessionFairness

----------------------------------------------------------------------------
(* Claims on the revision session *)

(* A frame of the RevisingWithoutAnswer page: a call of                    *)
(* get_card_for_revision.                                                  *)
RevisionFrame ==
    \E click \in {"none", "show", "edit"} \cup MenuTargets : RevisingWithoutAnswer(click)

(* The card at current_card has just been graded Wrong. *)
JustGradedWrong == op = <<"card_revised", "Wrong">> /\ ~panicked /\ CardIndexOk

(* A card of the current deck other than the current one is due. *)
OtherCardDue ==
    \E i \in 1..Len(CurrentCards) : i # current_card /\ is_due(CurrentCards[i], today)

Presented ==
    /\ op[1] = "get_card_for_revision" /\ ~panicked
    /\ ret[1]

(* get_card_for_revision has returned (false, false). *)
NothingDue ==
    /\ op[1] = "get_card_for_revision" /\ ~panicked
    /\ ret = <<FALSE, FALSE>>

(* C6: in a revision session in which every card shown is graded, a card   *)
(* graded Wrong is presented again by get_card_for_revision.               *)
C6_WrongCardOfferedAgain ==
    \A c \in 1..MaxCards :
        (JustGradedWrong /\ current_card = c) ~> (Presented /\ current_card = c)

(* A card behind another due card of its deck has been graded Wrong. *)
C6_Witness ==
    /\ JustGradedWrong
    /\ current_card > 1
    /\ OtherCardDue
    /\ today > 0

(* A Difficult review has left the tier of the reviewed card at 0. *)
DifficultKeptTierZero ==
    /\ op = <<"card_revised", "Difficult">> /\ ~panicked /\ CardIndexOk
    /\ CurrentCards[current_card].current_repeat_in = 0

WrongGiven == op = <<"card_revised", "Wrong">>

(* A deck has been chosen and is being revised. *)
InSession == state \in {"RevisingWithoutAnswer", "RevisingWithAnswer"}

(* A card presented by get_card_for_revision was not graded Easy earlier   *)
(* on the same day.                                                        *)
EasyNotPresentedAgain ==
    Presented => <<current_deck, current_card>> \notin easy_today

C8_DeleteSwapsLast ==
    [][(EditorDelete /\ ~panicked')
          => LET p   == current_card
                 old == decks[current_deck].cards
                 new == decks'[current_deck].cards
                 n   == Len(old)
             IN  /\ Len(new) = n - 1
                 /\ p # n => new[p] = old[n]
                 /\ \A i \in 1..(n - 1) : i # p => new[i] = old[i]
                 /\ decks'[current_deck].name = decks[current_deck].name
                 /\ Len(decks') = Len(decks)
                 /\ \A e \in 1..Len(decks) : e # current_deck => decks'[e] = decks[e]]_vars

(* The first of three cards has been deleted: the third card is now first  *)
(* and the second is where it was.                                         *)
C8_Witness ==
    /\ op[1] = "delete_card" /\ ~panicked
    /\ DeckIndexOk
    /\ Len(CurrentCards) = 2
    /\ CurrentCards[1].front.text = LoadedTexts[3]
    /\ CurrentCards[2].front.text = LoadedTexts[2]

(* There is no deck, or the current deck has no card. *)
EmptyDeckSet == Len(decks) = 0 \/ (DeckIndexOk /\ Len(CurrentCards) = 0)

(* A frame of the Browser page: a call of search. *)
SearchFrame ==
    \/ \E target \in MenuTargets : BrowserMenu(target)
    \/ \E cur \in 1..MaxDecks, back \in BOOLEAN, query \in SearchTexts :
          BrowserFrame(cur, back, query)

(* C9: with zero decks or with a current deck of zero cards,               *)
(* get_card_for_revision reports card_exists = false and search returns    *)
(* the empty sequence, without failing and without changing the state of   *)
(* the App.                                                                *)
C9_EmptyDeckSetIsNoError ==
    [][ /\ (EmptyDeckSet /\ RevisionFrame)
            => (~panicked' /\ ~ret'[1] /\ appCore' = appCore)
        /\ (EmptyDeckSet /\ SearchFrame)
            => (~panicked' /\ ret' = <<>> /\ appCore' = appCore) ]_vars

----------------------------------------------------------------------------
(* Claims on the decks and cards built through the pages *)

(* C11: in every reachable state every deck has a non-empty name,          *)
(* whenever "Create deck" is pressed.                                      *)
C11_DeckNamesNonEmpty ==
    \A i \in 1..Len(decks) : decks[i].name # ""

(* An Editor frame in which the user confirms a file in the dialog and the *)
(* frame completes.                                                        *)
AudioConfirmed ==
    /\ \E path \in AudioFiles \cup FolderPaths : EditorDialog("confirm", path)
    /\ ~panicked'

(* The step sets the audio reference of one side of the current card and   *)
(* changes nothing else of the App.                                        *)
OnlyFrontAudioSet ==
    /\ decks'[current_deck].cards[current_card].front.audio_path \in AudioFiles
    /\ decks' = [decks EXCEPT ![current_deck].cards[current_card].front.audio_path =
                    decks'[current_deck].cards[current_card].front.audio_path]
    /\ UNCHANGED <<current_deck, current_card, card_front, card_back>>

OnlyBackAudioSet ==
    /\ decks'[current_deck].cards[current_card].back.audio_path \in AudioFiles
    /\ decks' = [decks EXCEPT ![current_deck].cards[current_card].back.audio_path =
                    decks'[current_deck].cards[current_card].back.audio_path]
    /\ UNCHANGED <<current_deck, current_card, card_front, card_back>>

(* C12: confirming a file in the dialog opened by the front group's        *)
(* "Choose audio" sets only the front audio reference of the current card, *)
(* and confirming one opened by the back group's button sets only the back *)
(* audio reference; texts, scheduling state and all other cards are        *)
(* unchanged.                                                              *)
C12_AudioChangesOneSide ==
    [][AudioConfirmed
          => ( /\ chosen_for = "front" => OnlyFrontAudioSet
               /\ chosen_for = "back" => OnlyBackAudioSet )]_vars

(* C13: the Editor's Save replaces the front and the back text of the card *)
(* at current_card of the current deck with the edit buffers; that card's  *)
(* scheduling state and audio references, the number and order of the      *)
(* cards, and every other card and deck are unchanged.                     *)
C13_EditReplacesTextsOnly ==
    [][(EditorSave /\ ~panicked')
          => LET old == decks[current_deck].cards
                 new == decks'[current_deck].cards
                 p   == current_card
             IN  /\ new[p].front.text = card_front
                 /\ new[p].back.text = card_back
                 /\ new[p].front.audio_path = old[p].front.audio_path
                 /\ new[p].back.audio_path = old[p].back.audio_path
                 /\ new[p].current_repeat_in = old[p].current_repeat_in
                 /\ new[p].due_date = old[p].due_date
                 /\ Len(new) = Len(old)
                 /\ \A i \in 1..Len(old) : i # p => new[i] = old[i]
                 /\ decks'[current_deck].name = decks[current_deck].name
                 /\ Len(decks') = Len(decks)
                 /\ \A e \in 1..Len(decks) : e # current_deck => decks'[e] = decks[e]
                 /\ UNCHANGED <<current_deck, current_card, card_front, card_back>>]_vars

(* The second card of a deck of three, not due today, has been saved with  *)
(* both texts typed anew.                                                  *)
C13_Witness ==
    /\ op[1] = "edit_card" /\ ~panicked
    /\ state = "Main"
    /\ DeckIndexOk /\ current_card = 2
    /\ Len(CurrentCards) = 3
    /\ CurrentCards[2].front.text = "a" /\ CurrentCards[2].back.text = "b"
    /\ CurrentCards[2].current_repeat_in = 1 /\ CurrentCards[2].due_date = 1
    /\ CurrentCards[1].front.text = "a" /\ CurrentCards[1].back.text = "New back"

(* create_card has just put a card into the current deck, which holds no   *)
(* other card; no App operation has run since.                             *)
JustCreatedOnlyCard ==
    /\ op = <<"create_card", ToString(current_deck)>> /\ ~panicked
    /\ ret = <<TRUE>>
    /\ DeckIndexOk
    /\ Len(CurrentCards) = 1

(* C14: after create_card on a deck that then holds exactly that card, the *)
(* next get_card_for_revision on that deck reports that a card exists and  *)
(* leaves current_card at the position of the new card.                    *)
C14_NewCardIsDue ==
    [][(JustCreatedOnlyCard /\ RevisionFrame)
          => (~panicked' /\ ret'[1] /\ current_card' = 1 /\ decks' = decks)]_vars

(* The only card of the second deck is a new card and the revision page    *)
(* shows it, while the first deck holds cards of its own.                  *)
C14_Witness ==
    /\ op[1] = "get_card_for_revision" /\ ~panicked
    /\ ret[1]
    /\ state = "RevisingWithoutAnswer"
    /\ Len(decks) = 2 /\ current_deck = 2 /\ current_card = 1
    /\ Len(decks[1].cards) = 2
    /\ decks[2].cards = << new_card("New front", "New back", today) >>

----------------------------------------------------------------------------
(* Claims on the calendar functions *)

(* n is a multiple of d. *)
Multiple(n, d) == (n \div d) * d = n

(* The Gregorian rule. *)
GregorianLeap(y) == (Multiple(y, 4) /\ ~Multiple(y, 100)) \/ Multiple(y, 400)

(* C15: for every u16 year y, is_leap_year(y) is true exactly when y is    *)
(* divisible by 4 and not by 100, or divisible by 400; 1900 and 2023 are   *)
(* not leap, 2000 and 2024 are.                                            *)
C15_LeapYearIsGregorian ==
    (call.fn = "is_leap_year" /\ call.out # <<>>)
        => /\ call.out[1] = GregorianLeap(call.year)
           /\ call.year \in {1900, 2023} => call.out[1] = FALSE
           /\ call.year \in {2000, 2024} => call.out[1] = TRUE

(* The call on the century year 1900 has returned false. *)
C15_Witness ==
    /\ call.fn = "is_leap_year"
    /\ call.year = 1900
    /\ call.out = <<FALSE>>

(* The lexicographic order on (year, month, day). *)
LexLess(a, b) ==
    \/ a.year < b.year
    \/ a.year = b.year /\ a.month < b.month
    \/ a.year = b.year /\ a.month = b.month /\ a.day < b.day

LexOrder(a, b) ==
    IF LexLess(a, b) THEN "Less" ELSE IF LexLess(b, a) THEN "Greater" ELSE "Equal"

AtMost(ordering) == ordering \in {"Less", "Equal"}

(* C16: partial_cmp returns a definite ordering, the lexicographic one on  *)
(* (year, month, day); it returns Equal exactly when the dates are equal   *)
(* under PartialEq; it is antisymmetric and transitive.                    *)
C16_CompareIsLexicographic ==
    (call.fn = "partial_cmp" /\ call.out # <<>>)
        => LET r == call.out[1]
           IN  /\ r.ab \in {"Less", "Equal", "Greater"}
               /\ r.ab = LexOrder(call.a, call.b)
               /\ (r.ab = "Equal") <=> r.eq_ab
               /\ (r.ab = "Less") <=> (r.ba = "Greater")
               /\ (r.ab = "Equal") <=> (r.ba = "Equal")
               /\ (AtMost(r.ab) /\ AtMost(r.bc)) => AtMost(r.ac)
               /\ (AtMost(r.ab) /\ AtMost(r.bc) /\ r.ac = "Equal")
                     => (r.ab = "Equal" /\ r.bc = "Equal")

(* Three dates of one year in ascending order: the first two differ in the *)
(* month and, the other way, in the day; the last two in the day only.     *)
C16_Witness ==
    /\ call.fn = "partial_cmp" /\ call.out # <<>>
    /\ call.a.year = call.b.year /\ call.b.year = call.c.year
    /\ call.a.month < call.b.month /\ call.a.day > call.b.day
    /\ call.b.month = call.c.month /\ call.b.day < call.c.day
    /\ call.out[1].ab = "Less" /\ call.out[1].bc = "Less" /\ call.out[1].ac = "Less"

(* C17: for every month m in 1..12 and every year y, month_length(m, y) is *)
(* the length 31, 28, 31, 30, 31, 30, 31, 31, 30, 31, 30, 31 of the month, *)
(* except that February has 29 days exactly when is_leap_year(y).          *)
C17_MonthLengthIsGregorian ==
    (call.fn = "month_length" /\ call.out # <<>> /\ call.month \in 1..12)
        => /\ call.out[1] = GregorianLength(call.month, call.year)
           /\ (call.out[1] = 29) <=> (call.month = 2 /\ is_leap_year(call.year))

(* February of the leap year 2000 has 29 days. *)
C17_Witness ==
    /\ call.fn = "month_length"
    /\ call.month = 2 /\ call.year = 2000
    /\ call.out = <<29>>

----------------------------------------------------------------------------
(* Claims on the positions held by the App *)

(* delete_card was the last App operation. *)
JustDeleted == op[1] = "delete_card" /\ ~panicked

(* C18: after delete_card current_card is None, and stays None until an    *)
(* App operation sets it; the operation that follows a removal completes,  *)
(* and a position it stores is a position of the deck as it is then.       *)
C18_NoPositionAcrossRemoval ==
    [][ /\ (EditorDelete /\ ~panicked') => current_card' = None
        /\ JustDeleted
             => ( /\ current_card = None
                  /\ ~panicked'
                  /\ current_card' # None => CardIndexOk' ) ]_vars

(* The first card of a deck of two has been deleted from the Editor opened *)
(* in the Browser: the position held before the removal would now name     *)
(* the card that was second.                                               *)
C18_Witness ==
    /\ JustDeleted
    /\ state = "Main"
    /\ current_card = None
    /\ DeckIndexOk /\ Len(CurrentCards) = 1
    /\ TotalCards(decks, 1) = 2
    /\ search_text = "a"

(* C19: a get_card_for_revision that returns never returns (false, true);  *)
(* card_exists is true exactly when current_card is Some afterwards, and   *)
(* when got_a_new_card is true the text buffers hold the texts of the      *)
(* card at the new current_card.                                           *)
C19_RevisionResultConsistent ==
    [][(RevisionFrame /\ ~panicked')
          => ( /\ ret' # <<FALSE, TRUE>>
               /\ ret'[1] <=> (current_card' # None)
               /\ ret'[2]
                    => ( /\ CardIndexOk'
                         /\ card_front' = decks'[current_deck'].cards[current_card'].front.text
                         /\ card_back' = decks'[current_deck'].cards[current_card'].back.text ) )]_vars

(* get_card_for_revision has moved from a card that is not due to the      *)
(* third card of the deck and loaded its texts.                            *)
C19_Witness ==
    /\ op[1] = "get_card_for_revision" /\ ~panicked
    /\ ret = <<TRUE, TRUE>>
    /\ current_card = 3
    /\ card_front = LoadedTexts[3]
    /\ \E i \in 1..2 : <<current_deck, i>> \in easy_today

(* A frame of the RevisingWithAnswer page in which a grade is given. *)
GradeFrame == \E result \in Grades : RevisingWithAnswer(result)

(* C20: card_revised changes the scheduling state of the card at           *)
(* current_card of the current deck and nothing else: its texts and audio  *)
(* references, every other card of the deck, every other deck, the order   *)
(* of the decks, current_deck and current_card are unchanged.              *)
C20_ReviewIsLocal ==
    [][(GradeFrame /\ ~panicked')
          => LET old == decks[current_deck].cards
                 new == decks'[current_deck].cards
                 p   == current_card
             IN  /\ new[p].front = old[p].front
                 /\ new[p].back = old[p].back
                 /\ Len(new) = Len(old)
                 /\ \A i \in 1..Len(old) : i # p => new[i] = old[i]
                 /\ decks'[current_deck].name = decks[current_deck].name
                 /\ Len(decks') = Len(decks)
                 /\ \A e \in 1..Len(decks) : e # current_deck => decks'[e] = decks[e]
                 /\ UNCHANGED <<current_deck, current_card, card_front, card_back>>]_vars

(* The second card of a deck of two has been graded Easy and moved up a    *)
(* tier; the first card, not due, is as it was loaded, and the other deck  *)
(* holds a card.                                                           *)
C20_Witness ==
    /\ op = <<"card_revised", "Easy">> /\ ~panicked
    /\ Len(decks) = 2 /\ DeckIndexOk
    /\ current_card = 2 /\ Len(CurrentCards) = 2
    /\ CurrentCards[2].current_repeat_in = 1 /\ CurrentCards[2].due_date > today
    /\ CurrentCards[1] = loaded_card(1, <<1, 1>>)
    /\ \E e \in 1..2 : e # current_deck /\ Len(decks[e].cards) = 1

(* C21: in every state reached through the pages, a current_card that is   *)
(* Some(i) names a card of the current deck (current_deck is a deck and i  *)
(* is below its number of cards), and no access by position has failed.    *)
C21_CurrentCardInRange ==
    /\ current_card # None => CardIndexOk
    /\ ~panicked

(* The text buffers hold the stored texts of the card at current_card of   *)
(* the current deck.                                                       *)
BuffersShowCurrent ==
    /\ CardIndexOk
    /\ card_front = CurrentCards[current_card].front.text
    /\ card_back = CurrentCards[current_card].back.text

(* C22: when a frame of the revision page has reported card_exists = true, *)
(* and when a grade is given, card_front and card_back are the stored      *)
(* texts of the card at current_card of the current deck, whatever was     *)
(* done before: typing in the Editor and leaving it without Save, or       *)
(* choosing another deck.                                                  *)
C22_ShownTextIsCurrentCard ==
    [][ /\ (RevisionFrame /\ ~panicked' /\ ret'[1]) => BuffersShowCurrent'
        /\ GradeFrame => BuffersShowCurrent ]_vars

====
